---- MODULE Spec2Model ----
(***************************************************************************)
(* A model of DataLoader (src/data_loader.py): the preprocessing and       *)
(* feature engineering pipeline with its fit-once MinMaxScaler.            *)
(*                                                                         *)
(* A call of get_processed_data is a sequence of steps over the frame the  *)
(* call works on; the scaler and its flag are the only state shared by     *)
(* calls.  Numbers are exact rationals (the floating point rounding of the *)
(* scaler is not modelled); the sine and cosine columns are left out, the  *)
(* integer calendar columns they are computed from are kept.               *)
(***************************************************************************)
EXTENDS Integers, Sequences, FiniteSets, TLC

\* ------------------------------------------------------------ bounds
\* largest raw value of y in the enumerated small tables
MaxVal == 1
\* largest number of rows of the enumerated small tables
MaxRows == 2

\* ------------------------------------------------------------ rationals
Abs(x) == IF x < 0 THEN -x ELSE x

RECURSIVE GCD(_, _)
GCD(a, b) == IF b = 0 THEN a ELSE GCD(b, a % b)

\* the rational n/d in lowest terms, d > 0
Rat(n, d) ==
    LET g == GCD(Abs(n), Abs(d))
        s == IF d < 0 THEN -1 ELSE 1
    IN  [n |-> (s * n) \div g, d |-> (s * d) \div g]

Int2Rat(v) == [n |-> v, d |-> 1]
RatAdd(a, b) == Rat(a.n * b.d + b.n * a.d, a.d * b.d)
RatSub(a, b) == Rat(a.n * b.d - b.n * a.d, a.d * b.d)
RatMul(a, b) == Rat(a.n * b.n, a.d * b.d)
RatDiv(a, b) == Rat(a.n * b.d, a.d * b.n)
RatLess(a, b) == a.n * b.d < b.n * a.d
RatLeq(a, b) == a.n * b.d <= b.n * a.d

\* a missing value (NaN, NaT) and a present one
Null == <<>>
Some(v) == <<v>>

Range(s) == {s[i] : i \in 1..Len(s)}

\* ------------------------------------------------------------ frames
\* A frame is its number of rows and its columns, each a sequence of that
\* length.  A start_time cell is a timestamp on the 5-minute grid (day and
\* slot of the day), an empty cell, or text that is no timestamp.
Timestamp(day, slot) == [kind |-> "ts", day |-> day, slot |-> slot]
EmptyCell == [kind |-> "empty", day |-> 0, slot |-> 0]
BadCell == [kind |-> "text", day |-> 0, slot |-> 0]

Columns(frame) == DOMAIN frame.col
SetColumn(frame, c, values) ==
    [frame EXCEPT !.col = [x \in Columns(frame) \cup {c} |->
                              IF x = c THEN values ELSE frame.col[x]]]
DropColumn(frame, c) ==
    [frame EXCEPT !.col = [x \in Columns(frame) \ {c} |-> frame.col[x]]]

NoFrame == [rows |-> 0, col |-> <<>>]

FeatureColumns ==
    <<"hydro", "micro", "thermal", "wind", "river", "total", "sys_reg", "flow">>

\* a list that leaves out its last generation column
columns_to_scale_short == SubSeq(FeatureColumns, 1, Len(FeatureColumns) - 1) \o <<"y">>

columns_to_scale == FeatureColumns \o <<"y">>

\* the columns a call reads: start_time, y and the generation columns
RequiredColumns ==
    {"start_time", "y", "hydro", "micro", "thermal", "wind", "river", "total",
     "sys_reg", "flow"}

\* ------------------------------------------------------------ winsorize
\* limits=[0.005, 0.005] of winsorize_one_percent, as a fraction
limits == <<Rat(5, 1000), Rat(5, 1000)>>

\* int(limit * n)
IntOfProduct(limit, n) == (limit.n * n) \div limit.d

\* numpy's argsort puts the positions of a in ascending order of their values
\* (equal values in the order of their positions).  Before(a, i, j): position i
\* comes before position j in that order.
Before(a, i, j) == RatLess(a[i], a[j]) \/ (a[i] = a[j] /\ i < j)

\* the first, and the last, in that order of the positions lo..hi that come
\* after, and before, position p (p = 0: of all of lo..hi); 0 when there is none
RECURSIVE FirstAfter(_, _, _, _)
FirstAfter(a, p, lo, hi) ==
    IF lo = hi THEN (IF p = 0 \/ Before(a, p, lo) THEN lo ELSE 0)
    ELSE LET mid == (lo + hi) \div 2
             l   == FirstAfter(a, p, lo, mid)
             r   == FirstAfter(a, p, mid + 1, hi)
         IN  IF l = 0 THEN r ELSE IF r = 0 THEN l
             ELSE IF Before(a, l, r) THEN l ELSE r

RECURSIVE LastBefore(_, _, _, _)
LastBefore(a, p, lo, hi) ==
    IF lo = hi THEN (IF p = 0 \/ Before(a, lo, p) THEN lo ELSE 0)
    ELSE LET mid == (lo + hi) \div 2
             l   == LastBefore(a, p, lo, mid)
             r   == LastBefore(a, p, mid + 1, hi)
         IN  IF l = 0 THEN r ELSE IF r = 0 THEN l
             ELSE IF Before(a, l, r) THEN r ELSE l

\* argsort(a)[:m], and argsort(a)[::-1][:m]: the m first positions of the
\* order, and its m last ones from the last one back
RECURSIVE argsort_head(_, _)
argsort_head(a, m) ==
    IF m = 0 THEN <<>>
    ELSE LET h == argsort_head(a, m - 1)
         IN  Append(h, FirstAfter(a, IF m = 1 THEN 0 ELSE h[m - 1], 1, Len(a)))

RECURSIVE argsort_tail(_, _)
argsort_tail(a, m) ==
    IF m = 0 THEN <<>>
    ELSE LET h == argsort_tail(a, m - 1)
         IN  Append(h, LastBefore(a, IF m = 1 THEN 0 ELSE h[m - 1], 1, Len(a)))

\* scipy.stats.mstats.winsorize raises on an array of no elements
\* (a[idx[lowidx]] of an empty idx)
winsorize_raises(a) == Len(a) = 0

\* winsorize with the lower bound read one rank too low: the lowest values
\* are set to the highest of themselves
winsorize_low_rank(a, lim) ==
    LET n      == Len(a)
        lowidx == IntOfProduct(lim[1], n)
        upidx  == n - IntOfProduct(lim[2], n)
        head   == argsort_head(a, lowidx + 1)
        tail   == argsort_tail(a, n - upidx + 1)
        low    == [i \in 1..n |->
                     IF \E k \in 1..lowidx : head[k] = i
                     THEN a[head[lowidx]] ELSE a[i]]
    IN  [i \in 1..n |->
           IF \E k \in 1..(n - upidx) : tail[k] = i
           THEN low[tail[n - upidx + 1]] ELSE low[i]]

\* scipy.stats.mstats.winsorize(a, limits), inclusive, not in place:
\*   lowidx = int(low_limit * n);     a[idx[:lowidx]] = a[idx[lowidx]]
\*   upidx  = n - int(n * up_limit);  a[idx[upidx:]]  = a[idx[upidx - 1]]
\* with idx = a.argsort(), read at its first lowidx + 1 and its last
\* n - upidx + 1 positions only
winsorize(a, lim) ==
    LET n      == Len(a)
        lowidx == IntOfProduct(lim[1], n)
        upidx  == n - IntOfProduct(lim[2], n)
        head   == argsort_head(a, lowidx + 1)
        tail   == argsort_tail(a, n - upidx + 1)
        low    == [i \in 1..n |->
                     IF \E k \in 1..lowidx : head[k] = i
                     THEN a[head[lowidx + 1]] ELSE a[i]]
    IN  [i \in 1..n |->
           IF \E k \in 1..(n - upidx) : tail[k] = i
           THEN low[tail[n - upidx + 1]] ELSE low[i]]

\* ------------------------------------------------------------ MinMaxScaler
feature_range == <<Int2Rat(-1), Int2Rat(1)>>

ColMin(a) == CHOOSE x \in Range(a) : \A y \in Range(a) : RatLeq(x, y)
ColMax(a) == CHOOSE x \in Range(a) : \A y \in Range(a) : RatLeq(y, x)

\* the scaler before any fit: no data_min_, no data_max_
Unfitted == [data_min |-> <<>>, data_max |-> <<>>]

\* data[columns_to_scale] raises when a column is absent
SelectRaises(frame, cols) == ~(Range(cols) \subseteq Columns(frame))

\* MinMaxScaler.fit raises on a frame of no rows
fit_raises(frame) == frame.rows = 0

\* MinMaxScaler.fit: the per-column minimum and maximum of the frame
fit(frame, cols) ==
    [data_min |-> [c \in Range(cols) |-> ColMin(frame.col[c])],
     data_max |-> [c \in Range(cols) |-> ColMax(frame.col[c])]]

\* MinMaxScaler.transform of one value: X * scale_ + min_, with
\*   scale_ = (hi - lo) / data_range_   (a zero range counts as 1)
\*   min_   = lo - data_min_ * scale_
transform_value(x, dmin, dmax) ==
    LET lo     == feature_range[1]
        hi     == feature_range[2]
        range  == IF RatSub(dmax, dmin) = Int2Rat(0)
                  THEN Int2Rat(1) ELSE RatSub(dmax, dmin)
        scale  == RatDiv(RatSub(hi, lo), range)
        min_   == RatSub(lo, RatMul(dmin, scale))
    IN  RatAdd(RatMul(x, scale), min_)

transform_column(a, dmin, dmax) ==
    [i \in 1..Len(a) |-> transform_value(a[i], dmin, dmax)]

\* data[columns_to_scale] = scaler.transform(data[columns_to_scale])
transform(frame, sc, cols) ==
    [frame EXCEPT !.col = [c \in Columns(frame) |->
        IF c \in Range(cols)
        THEN transform_column(frame.col[c], sc.data_min[c], sc.data_max[c])
        ELSE frame.col[c]]]

\* ------------------------------------------------------------ lags
\* Series.shift(k): row i holds the value of row i - k, the first k rows none
shift(a, k) == [i \in 1..Len(a) |-> IF i <= k THEN Null ELSE Some(a[i - k])]

\* the period of add_shifted_daily_value
ShiftDay == 288

\* ------------------------------------------------------------ calendar
\* pd.to_datetime raises on text that is no timestamp; an empty cell is NaT
to_datetime_raises(a) == \E i \in 1..Len(a) : a[i].kind = "text"

IsTime(cell) == cell.kind = "ts"
\* twelve 5-minute slots to the hour
hour_of(cell) == IF IsTime(cell) THEN Some(cell.slot \div 12) ELSE Null
minute_of(cell) == IF IsTime(cell) THEN Some((cell.slot % 12) * 5) ELSE Null
\* day 0 is a Monday and the first of January
day_of_week_of(cell) == IF IsTime(cell) THEN Some(cell.day % 7) ELSE Null
day_of_year_of(cell) == IF IsTime(cell) THEN Some(cell.day + 1) ELSE Null
date_of(cell) == IF IsTime(cell) THEN Some(cell.day) ELSE Null

\* the .dt accessors of a column of cells, row by row
dt_hour(a) == [i \in 1..Len(a) |-> hour_of(a[i])]
dt_minute(a) == [i \in 1..Len(a) |-> minute_of(a[i])]
dt_day_of_week(a) == [i \in 1..Len(a) |-> day_of_week_of(a[i])]
dt_day_of_year(a) == [i \in 1..Len(a) |-> day_of_year_of(a[i])]
dt_date(a) == [i \in 1..Len(a) |-> date_of(a[i])]

\* minute + hour_of_day * 60, row by row
min_of_day(minutes, hours) ==
    [i \in 1..Len(minutes) |->
        IF minutes[i] = Null \/ hours[i] = Null THEN Null
        ELSE Some(minutes[i][1] + hours[i][1] * 60)]

\* ------------------------------------------------------------ daily mean
RECURSIVE SortedDates(_)
SortedDates(S) ==
    IF S = {} THEN <<>>
    ELSE LET m == CHOOSE x \in S : \A y \in S : x <= y
         IN  <<m>> \o SortedDates(S \ {m})

RowsOfDate(dates, d) == {i \in 1..Len(dates) : dates[i] = Some(d)}

\* the sum of the values of the rows lo..hi whose date is d
RECURSIVE SumOfDate(_, _, _, _, _)
SumOfDate(a, dates, d, lo, hi) ==
    IF lo > hi THEN Int2Rat(0)
    ELSE IF lo = hi THEN (IF dates[lo] = Some(d) THEN a[lo] ELSE Int2Rat(0))
    ELSE LET mid == (lo + hi) \div 2
         IN  RatAdd(SumOfDate(a, dates, d, lo, mid), SumOfDate(a, dates, d, mid + 1, hi))

\* the mean of the values of the rows of one date
MeanOfDate(ys, dates, d) ==
    RatDiv(SumOfDate(ys, dates, d, 1, Len(ys)),
           Int2Rat(Cardinality(RowsOfDate(dates, d))))

\* data.groupby(['date']).y.mean(): one row per date that is present, in
\* ascending order of the dates; rows of no date belong to no group
groupby_date_mean(ys, dates) ==
    LET keys == SortedDates({dates[i][1] : i \in {j \in 1..Len(dates) : dates[j] # Null}})
    IN  [date       |-> keys,
         daily_mean |-> [k \in 1..Len(keys) |-> MeanOfDate(ys, dates, keys[k])]]

\* the rows of the left frame the inner merge keeps, in the order of the left
\* keys: those whose date is a key of the right table
merge_rows(dates, keys) ==
    SelectSeq([i \in 1..Len(dates) |-> i],
              LAMBDA i : \E k \in 1..Len(keys) : dates[i] = Some(keys[k]))

\* data.merge(daily_mean, left_on='date', right_on='date')
merge(frame, right) ==
    LET keep == merge_rows(frame.col["date"], right.date)
        at(d) == CHOOSE k \in 1..Len(right.date) : right.date[k] = d
    IN  [rows |-> Len(keep),
         col  |-> [c \in Columns(frame) \cup {"daily_mean"} |->
                    [r \in 1..Len(keep) |->
                       IF c = "daily_mean"
                       THEN right.daily_mean[at(frame.col["date"][keep[r]][1])]
                       ELSE frame.col[c][keep[r]]]]]

\* add_shifted_daily_mean on a frame whose date column is set
shifted_daily_mean(frame) ==
    LET means == groupby_date_mean(frame.col["y"], frame.col["date"])
    IN  merge(frame, [date |-> means.date, daily_mean |-> shift(means.daily_mean, 1)])

\* ------------------------------------------------------------ input tables
\* The tables a call may be given.  The generation columns are affine images
\* of the target, a different one per column.
FeatureValue(k, y) == Int2Rat(IF k % 2 = 1 THEN y + k ELSE k - 2 * y)

MkTable(ys, ts) ==
    [rows |-> Len(ys),
     col  |-> [c \in RequiredColumns |->
                IF c = "start_time" THEN ts
                ELSE IF c = "y" THEN [i \in 1..Len(ys) |-> Int2Rat(ys[i])]
                ELSE LET k == CHOOSE j \in 1..Len(FeatureColumns) : FeatureColumns[j] = c
                     IN  [i \in 1..Len(ys) |-> FeatureValue(k, ys[i])]]]

\* every table of up to MaxRows rows of one day, a row per slot from midnight on
ValueTables ==
    UNION {{MkTable(ys, [i \in 1..n |-> Timestamp(0, i - 1)]) : ys \in [1..n -> 0..MaxVal]}
           : n \in 0..MaxRows}

\* tables of two and three rows with every choice of the rows' start_time:
\* midnight of day 0, 1 or 3 (a day is skipped) or an empty cell, in any order
SmallTimes == {Timestamp(0, 0), Timestamp(1, 0), Timestamp(3, 0), EmptyCell}
DateLengths == {2, 3}

DateTables ==
    UNION {{MkTable([i \in 1..n |-> (v + i) % (MaxVal + 1)], ts) :
               v \in 0..MaxVal, ts \in [1..n -> SmallTimes]}
           : n \in DateLengths}

\* long tables on the 5-minute grid, one row per slot from a first slot on:
\* 200 rows from noon (the fewest rows of which winsorize clips one at each
\* end) and 289 rows from midnight (the fewest rows the lag of a day reaches).
\* The body alternates 2, 3; a spike is a single 0 or 7.
LongShapes == {[rows |-> 200, start |-> 144], [rows |-> 289, start |-> 0]}
Spikes == {"none", "low", "high", "both"}

LongY(n, spike) ==
    [i \in 1..n |->
        IF i = 2 /\ spike \in {"low", "both"} THEN 0
        ELSE IF i = n - 1 /\ spike \in {"high", "both"} THEN 7
        ELSE 2 + (i % 2)]

LongTimes(n, start) ==
    [i \in 1..n |-> Timestamp((start + i - 1) \div ShiftDay, (start + i - 1) % ShiftDay)]

LongTables ==
    {MkTable(LongY(sh.rows, spike), LongTimes(sh.rows, sh.start)) :
        sh \in LongShapes, spike \in Spikes}

\* tables that lack a required column, and tables whose start_time is no
\* timestamp
OneRow(v) == MkTable(<<v>>, <<Timestamp(0, 0)>>)

LackingTables == {DropColumn(OneRow(v), c) : v \in 0..MaxVal, c \in RequiredColumns}

TextTimeTables == {MkTable(<<v>>, <<BadCell>>) : v \in 0..MaxVal}

Tables == ValueTables \cup DateTables \cup LongTables \cup LackingTables \cup TextTimeTables

\* the tables of the calls that run concurrently
ThreadTables ==
    {OneRow(v) : v \in 0..MaxVal}
        \cup {DropColumn(OneRow(0), "start_time"), DropColumn(OneRow(0), "flow")}

\* ------------------------------------------------------------ state
Threads == {1, 2}
MainThread == 1

VARIABLES
    scaler,             \* self.scaler: its data_min_ and data_max_
    scaler_is_trained,  \* self.scaler_is_trained
    pc,                 \* per thread: idle, the step its call is at, done, failed
    line,               \* per thread: where in scale_data its call is
    data,               \* per thread: the frame its call works on, then returns
    raw,                \* per thread: the table its call was given
    pre,                \* per thread: the scaler and flag when its call began
    used,               \* per thread: the scaler its call transformed with
    fit_log,            \* the results of the fits done so far, in order
    first_call          \* what a fit of the first call's table stores, if any

vars == <<scaler, scaler_is_trained, pc, line, data, raw, pre, used, fit_log, first_call>>

\* ------------------------------------------------------------ the call
\* the lags taken before scaling
apply_preprocessing_lags_first ==
    <<"snapshot", "winsorize_one_percent", "add_shifted_daily_value", "shift_y",
      "scale_data">>

apply_preprocessing ==
    <<"snapshot", "winsorize_one_percent", "scale_data",
      "add_shifted_daily_value", "shift_y">>

apply_feature_engineering ==
    <<"add_hour_of_day", "add_min_of_day", "add_day_of_week", "add_day_of_year",
      "add_shifted_daily_mean">>

get_processed_data == apply_preprocessing \o apply_feature_engineering

\* the step that follows a step of the call
After(step) ==
    LET order == get_processed_data
        i == CHOOSE j \in 1..Len(order) : order[j] = step
    IN  IF i = Len(order) THEN "done" ELSE order[i + 1]

\* what the first steps of a call make of a table, when they do not raise
Clipped(table) == SetColumn(table, "y", winsorize(table.col["y"], limits))

ReachesFit(table) ==
    /\ "y" \in Columns(table)
    /\ ~winsorize_raises(table.col["y"])
    /\ ~SelectRaises(table, columns_to_scale)

NoScaler == [trained |-> FALSE, scaler |-> Unfitted]

Init ==
    /\ scaler = Unfitted
    /\ scaler_is_trained = FALSE
    /\ pc = [t \in Threads |-> "idle"]
    /\ line = [t \in Threads |-> "check"]
    /\ data = [t \in Threads |-> NoFrame]
    /\ raw = [t \in Threads |-> NoFrame]
    /\ pre = [t \in Threads |-> NoScaler]
    /\ used = [t \in Threads |-> Null]
    /\ fit_log = <<>>
    /\ first_call = Null

\* the step raises: the call ends and returns no frame
Raise(t) ==
    /\ pc' = [pc EXCEPT ![t] = "failed"]
    /\ line' = [line EXCEPT ![t] = "check"]
    /\ data' = [data EXCEPT ![t] = NoFrame]

\* the step completes with the frame it made
Advance(t, frame) ==
    /\ pc' = [pc EXCEPT ![t] = After(pc[t])]
    /\ line' = [line EXCEPT ![t] = "check"]
    /\ data' = [data EXCEPT ![t] = frame]

\* get_processed_data, line 22: the table is read
Start(t, table) ==
    /\ pc[t] = "idle"
    /\ pc' = [pc EXCEPT ![t] = get_processed_data[1]]
    /\ data' = [data EXCEPT ![t] = table]
    /\ raw' = [raw EXCEPT ![t] = table]
    /\ pre' = [pre EXCEPT ![t] = [trained |-> scaler_is_trained, scaler |-> scaler]]
    /\ first_call' =
          IF first_call # Null THEN first_call
          ELSE Some(IF ReachesFit(table)
                    THEN [fits |-> TRUE, stored |-> fit(Clipped(table), columns_to_scale)]
                    ELSE [fits |-> FALSE, stored |-> Unfitted])
    /\ UNCHANGED <<scaler, scaler_is_trained, line, used, fit_log>>

\* apply_preprocessing, line 33: data['y_original'] = data['y']
Snapshot(t) ==
    /\ pc[t] = "snapshot"
    /\ IF "y" \notin Columns(data[t])
       THEN Raise(t)
       ELSE Advance(t, SetColumn(data[t], "y_original", data[t].col["y"]))
    /\ UNCHANGED <<scaler, scaler_is_trained, raw, pre, used, fit_log, first_call>>

\* winsorize_one_percent
WinsorizeOnePercent(t) ==
    /\ pc[t] = "winsorize_one_percent"
    /\ IF winsorize_raises(data[t].col["y"])
       THEN Raise(t)
       ELSE Advance(t, SetColumn(data[t], "y", winsorize(data[t].col["y"], limits)))
    /\ UNCHANGED <<scaler, scaler_is_trained, raw, pre, used, fit_log, first_call>>

\* a scaler that is fit by every call
NeedsFit_always(trained) == TRUE

\* scale_data, line 71: if not self.scaler_is_trained
NeedsFit(trained) == ~trained

ScaleCheck(t) ==
    /\ pc[t] = "scale_data" /\ line[t] = "check"
    /\ line' = [line EXCEPT ![t] = IF NeedsFit(scaler_is_trained) THEN "fit" ELSE "transform"]
    /\ UNCHANGED <<scaler, scaler_is_trained, pc, data, raw, pre, used, fit_log, first_call>>

\* scale_data, line 72: self.scaler.fit(data[columns_to_scale])
ScaleFit(t) ==
    /\ pc[t] = "scale_data" /\ line[t] = "fit"
    /\ IF SelectRaises(data[t], columns_to_scale) \/ fit_raises(data[t])
       THEN /\ Raise(t)
            /\ UNCHANGED <<scaler, fit_log>>
       ELSE /\ scaler' = fit(data[t], columns_to_scale)
            /\ fit_log' = Append(fit_log, scaler')
            /\ line' = [line EXCEPT ![t] = "flag"]
            /\ UNCHANGED <<pc, data>>
    /\ UNCHANGED <<scaler_is_trained, raw, pre, used, first_call>>

\* scale_data, line 73: self.scaler_is_trained = True
ScaleFlag(t) ==
    /\ pc[t] = "scale_data" /\ line[t] = "flag"
    /\ scaler_is_trained' = TRUE
    /\ line' = [line EXCEPT ![t] = "transform"]
    /\ UNCHANGED <<scaler, pc, data, raw, pre, used, fit_log, first_call>>

\* scale_data, line 74: data[columns_to_scale] = self.scaler.transform(...)
ScaleTransform(t) ==
    /\ pc[t] = "scale_data" /\ line[t] = "transform"
    /\ IF SelectRaises(data[t], columns_to_scale)
       THEN Raise(t) /\ UNCHANGED used
       ELSE /\ Advance(t, transform(data[t], scaler, columns_to_scale))
            /\ used' = [used EXCEPT ![t] = Some(scaler)]
    /\ UNCHANGED <<scaler, scaler_is_trained, raw, pre, fit_log, first_call>>

\* add_shifted_daily_value: data['y_yesterday'] = data['y'].shift(288)
AddShiftedDailyValue(t) ==
    /\ pc[t] = "add_shifted_daily_value"
    /\ Advance(t, SetColumn(data[t], "y_yesterday", shift(data[t].col["y"], ShiftDay)))
    /\ UNCHANGED <<scaler, scaler_is_trained, raw, pre, used, fit_log, first_call>>

\* shift_y: data['y_prev'] = data['y'].shift(1)
ShiftY(t) ==
    /\ pc[t] = "shift_y"
    /\ Advance(t, SetColumn(data[t], "y_prev", shift(data[t].col["y"], 1)))
    /\ UNCHANGED <<scaler, scaler_is_trained, raw, pre, used, fit_log, first_call>>

\* add_hour_of_day: the first step to read start_time
AddHourOfDay(t) ==
    /\ pc[t] = "add_hour_of_day"
    /\ IF "start_time" \notin Columns(data[t])
       THEN Raise(t)
       ELSE IF to_datetime_raises(data[t].col["start_time"])
       THEN Raise(t)
       ELSE Advance(t, SetColumn(data[t], "hour_of_day",
                                 dt_hour(data[t].col["start_time"])))
    /\ UNCHANGED <<scaler, scaler_is_trained, raw, pre, used, fit_log, first_call>>

\* add_min_of_day
AddMinOfDay(t) ==
    /\ pc[t] = "add_min_of_day"
    /\ Advance(t, SetColumn(data[t], "min_of_day",
                            min_of_day(dt_minute(data[t].col["start_time"]),
                                       data[t].col["hour_of_day"])))
    /\ UNCHANGED <<scaler, scaler_is_trained, raw, pre, used, fit_log, first_call>>

\* add_day_of_week
AddDayOfWeek(t) ==
    /\ pc[t] = "add_day_of_week"
    /\ Advance(t, SetColumn(data[t], "day_of_week",
                            dt_day_of_week(data[t].col["start_time"])))
    /\ UNCHANGED <<scaler, scaler_is_trained, raw, pre, used, fit_log, first_call>>

\* add_day_of_year
AddDayOfYear(t) ==
    /\ pc[t] = "add_day_of_year"
    /\ Advance(t, SetColumn(data[t], "day_of_year",
                            dt_day_of_year(data[t].col["start_time"])))
    /\ UNCHANGED <<scaler, scaler_is_trained, raw, pre, used, fit_log, first_call>>

\* add_shifted_daily_mean
AddShiftedDailyMean(t) ==
    /\ pc[t] = "add_shifted_daily_mean"
    /\ Advance(t, shifted_daily_mean(
                     SetColumn(data[t], "date",
                               dt_date(data[t].col["start_time"]))))
    /\ UNCHANGED <<scaler, scaler_is_trained, raw, pre, used, fit_log, first_call>>

\* the caller takes what the call returned or raised
Return(t) ==
    /\ pc[t] \in {"done", "failed"}
    /\ pc' = [pc EXCEPT ![t] = "idle"]
    /\ data' = [data EXCEPT ![t] = NoFrame]
    /\ raw' = [raw EXCEPT ![t] = NoFrame]
    /\ pre' = [pre EXCEPT ![t] = NoScaler]
    /\ used' = [used EXCEPT ![t] = Null]
    /\ UNCHANGED <<scaler, scaler_is_trained, line, fit_log, first_call>>

Step(t) ==
    \/ Snapshot(t)
    \/ WinsorizeOnePercent(t)
    \/ ScaleCheck(t)
    \/ ScaleFit(t)
    \/ ScaleFlag(t)
    \/ ScaleTransform(t)
    \/ AddShiftedDailyValue(t)
    \/ ShiftY(t)
    \/ AddHourOfDay(t)
    \/ AddMinOfDay(t)
    \/ AddDayOfWeek(t)
    \/ AddDayOfYear(t)
    \/ AddShiftedDailyMean(t)
    \/ Return(t)

\* one caller, one call after the other
Next ==
    \/ \E table \in Tables : Start(MainThread, table)
    \/ Step(MainThread)

Spec == Init /\ [][Next]_vars

\* two threads share the instance; a thread switch may come between any two
\* lines of scale_data
NextThreads ==
    \E t \in Threads :
        \/ \E table \in ThreadTables : Start(t, table)
        \/ Step(t)

SpecThreads == Init /\ [][NextThreads]_vars

\* ------------------------------------------------------------ properties
StepNo(p) ==
    IF p = "done" THEN Len(get_processed_data) + 1
    ELSE IF p \in Range(get_processed_data)
    THEN CHOOSE j \in 1..Len(get_processed_data) : get_processed_data[j] = p
    ELSE 0

\* the call of thread t has completed the step
Past(t, step) == StepNo(pc[t]) > StepNo(step)

Running(t) == pc[t] \notin {"idle", "failed"}

\* the rows of a table that have a date, in the table's order
RowsWithDate(table) ==
    SelectSeq([i \in 1..table.rows |-> i],
              LAMBDA i : IsTime(table.col["start_time"][i]))

\* a column as the rows rws of it
Pick(a, rws) == [r \in 1..Len(rws) |-> a[rws[r]]]

\* C1 as stated: once the scaler holds a minimum and maximum, they are the
\* ones a fit of the first call's clipped table stores.
C1_StoredFromFirstCall ==
    scaler # Unfitted =>
        /\ first_call # Null
        /\ first_call[1].fits
        /\ scaler = first_call[1].stored

\* C1 as amended, the state part: the scaler has been fit at most once, the
\* flag is set only after a fit, a call that has just fit holds the minimum and
\* maximum of its own clipped table, and every call that has transformed did so
\* with the stored values: as it leaves scale_data its scaled columns are the
\* transform of its clipped table by them.
C1_Stored ==
    /\ Len(fit_log) <= 1
    /\ (scaler = Unfitted) = (fit_log = <<>>)
    /\ scaler_is_trained => scaler # Unfitted
    /\ \A t \in Threads :
          /\ (pc[t] = "scale_data" /\ line[t] = "flag") =>
                scaler = fit(Clipped(raw[t]), columns_to_scale)
          /\ used[t] # Null => used[t] = Some(scaler)
          /\ Past(t, "scale_data") => used[t] # Null
          /\ pc[t] = After("scale_data") =>
                LET clipped == Clipped(raw[t])
                IN  \A c \in Range(columns_to_scale) :
                        data[t].col[c] =
                            transform_column(clipped.col[c],
                                             scaler.data_min[c], scaler.data_max[c])

\* C1 as amended, the step part: the stored values change only in a fit, a fit
\* happens only while nothing is stored, and it stores the minimum and maximum
\* of the fitting call's clipped table.
C1_Step ==
    scaler' # scaler =>
        /\ scaler = Unfitted
        /\ ~scaler_is_trained
        /\ \E t \in Threads :
              /\ pc[t] = "scale_data" /\ line[t] = "fit"
              /\ scaler' = fit(Clipped(raw[t]), columns_to_scale)

\* C1 (amended): the scaler's stored per-column minimum and maximum are
\* computed by the first call whose fit completes, from that call's clipped
\* table, and no later call changes them: a later call only transforms with
\* them, also when its values lie outside them.
C1_FitOnce == [](C1_Stored) /\ [][C1_Step]_vars

\* a call that began after the fit has transformed a table whose own minimum
\* and maximum differ from the stored ones, to values outside [-1, 1]
C1_Witness ==
    \E t \in Threads :
        /\ pc[t] = "done"
        /\ pre[t].trained
        /\ scaler # fit(Clipped(raw[t]), columns_to_scale)
        /\ \E i \in 1..data[t].rows :
              \/ RatLess(feature_range[2], data[t].col["y"][i])
              \/ RatLess(data[t].col["y"][i], feature_range[1])

\* the value of rank k (from 0) of a in ascending order: fewer than k + 1
\* values lie below it and at least k + 1 lie at or below it
RankValue(a, k) ==
    CHOOSE v \in Range(a) :
        /\ Cardinality({i \in 1..Len(a) : RatLess(a[i], v)}) <= k
        /\ Cardinality({i \in 1..Len(a) : RatLeq(a[i], v)}) > k

\* the 0.5th and the 99.5th percentile of a, as winsorize takes them: the
\* values of rank int(0.005 n) from below and from above
LowerPercentile(a) == RankValue(a, IntOfProduct(limits[1], Len(a)))
UpperPercentile(a) == RankValue(a, Len(a) - 1 - IntOfProduct(limits[2], Len(a)))

\* C5: after the winsorize step of a call and before scaling, every value of y
\* lies within the 0.5th and 99.5th percentile of the y column of the table
\* this call was given, a value of the table within them is unchanged, and no
\* row is added or lost; the percentiles are those of this call's table alone.
C5_WinsorizeBound ==
    \A t \in Threads :
        pc[t] = "scale_data" =>
            LET a  == raw[t].col["y"]
                w  == data[t].col["y"]
                lo == LowerPercentile(a)
                hi == UpperPercentile(a)
            IN  /\ Len(w) = Len(a)
                /\ \A i \in 1..Len(a) :
                      /\ RatLeq(lo, w[i])
                      /\ RatLeq(w[i], hi)
                      /\ (RatLeq(lo, a[i]) /\ RatLeq(a[i], hi)) => w[i] = a[i]

\* a call, after an earlier call fit the scaler on other data, whose winsorize
\* step pulled a low and a high value of y to the percentiles
C5_Witness ==
    \E t \in Threads :
        /\ pc[t] = "scale_data"
        /\ pre[t].trained
        /\ \E i, j \in 1..raw[t].rows :
              /\ RatLess(raw[t].col["y"][i], data[t].col["y"][i])
              /\ RatLess(data[t].col["y"][j], raw[t].col["y"][j])

\* C8: a call on a table that lacks a required column never completes: it
\* gets no further than the step that reads the column (y: the snapshot; a
\* generation column: scale_data; start_time: add_hour_of_day), and a call
\* that raised returns no frame.
C8_MissingColumnFails ==
    \A t \in Threads :
        /\ pc[t] = "done" => RequiredColumns \subseteq Columns(raw[t])
        /\ pc[t] = "failed" => data[t] = NoFrame
        /\ Running(t) =>
              /\ "y" \notin Columns(raw[t]) => ~Past(t, "snapshot")
              /\ (\E c \in Range(FeatureColumns) : c \notin Columns(raw[t]))
                    => ~Past(t, "scale_data")
              /\ "start_time" \notin Columns(raw[t]) => ~Past(t, "add_hour_of_day")

\* a call on a table without start_time raised, after it had fit the scaler
C8_Witness ==
    \E t \in Threads :
        /\ pc[t] = "failed"
        /\ raw[t].rows > 0
        /\ "start_time" \notin Columns(raw[t])
        /\ scaler_is_trained

\* the y column a call is to lag: the y of its table, clipped, then scaled
\* with the stored minimum and maximum
ClippedScaledY(t) ==
    transform_column(winsorize(raw[t].col["y"], limits),
                     scaler.data_min["y"], scaler.data_max["y"])

\* the mean of ys over the rows of the latest date before d that the table
\* has, none when it has no earlier date
MeanOfEarlierDate(ys, table, d) ==
    LET dates   == dt_date(table.col["start_time"])
        earlier == {dates[i][1] : i \in {j \in 1..Len(dates) :
                                           dates[j] # Null /\ dates[j][1] < d}}
    IN  IF earlier = {} THEN Null
        ELSE Some(MeanOfDate(ys, dates,
                             CHOOSE e \in earlier : \A f \in earlier : f <= e))

\* C9: the steps of a call run in the order snapshot, clip, scale, lags,
\* feature engineering.  The snapshot is taken of the raw y; scaling starts on
\* the clipped y; no lag or mean column exists before scaling is over; and
\* y_yesterday, y_prev and daily_mean are lags and per-date means of the
\* clipped and scaled y, never of the raw y: of the frame's y as scaling left
\* it while the call runs, and in the returned frame of the clipped and scaled
\* y of the table, at the rows the frame keeps.
C9_StepOrder ==
    \A t \in Threads :
        Running(t) =>
            /\ pc[t] = "winsorize_one_percent" =>
                  /\ data[t].col["y"] = raw[t].col["y"]
                  /\ data[t].col["y_original"] = raw[t].col["y"]
            /\ pc[t] = "scale_data" =>
                  data[t].col["y"] = winsorize(raw[t].col["y"], limits)
            /\ ~Past(t, "scale_data") =>
                  Columns(data[t]) \cap {"y_yesterday", "y_prev", "daily_mean"} = {}
            /\ pc[t] = After("scale_data") => data[t].col["y"] = ClippedScaledY(t)
            /\ (Past(t, "add_shifted_daily_value") /\ pc[t] # "done") =>
                  data[t].col["y_yesterday"] = shift(data[t].col["y"], ShiftDay)
            /\ (Past(t, "shift_y") /\ pc[t] # "done") =>
                  data[t].col["y_prev"] = shift(data[t].col["y"], 1)
            /\ pc[t] = "done" =>
                  LET ys     == ClippedScaledY(t)
                      rows   == RowsWithDate(raw[t])
                      day(r) == raw[t].col["start_time"][rows[r]].day
                      mean   == [d \in {day(r) : r \in 1..Len(rows)} |->
                                   MeanOfEarlierDate(ys, raw[t], d)]
                  IN  /\ data[t].col["y"] = Pick(ys, rows)
                      /\ data[t].col["y_yesterday"] = Pick(shift(ys, ShiftDay), rows)
                      /\ data[t].col["y_prev"] = Pick(shift(ys, 1), rows)
                      /\ \A r \in 1..Len(rows) :
                            data[t].col["daily_mean"][r] = mean[day(r)]

\* a completed call whose clipping changed y, whose scaler was fit by an
\* earlier call, and whose output has a row with a y_prev, a row with a
\* y_yesterday and a row with a daily_mean
C9_Witness ==
    \E t \in Threads :
        /\ pc[t] = "done"
        /\ pre[t].trained
        /\ \E r \in 1..data[t].rows : data[t].col["y_prev"][r] # Null
        /\ \E r \in 1..data[t].rows : data[t].col["y_yesterday"][r] # Null
        /\ \E r \in 1..data[t].rows : data[t].col["daily_mean"][r] # Null
        /\ winsorize(raw[t].col["y"], limits) # raw[t].col["y"]

\* C2 as stated: in the output, daily_mean of a row of date d is the mean of
\* the output's y over the rows of date d - 1 when there are such rows, and
\* null when there are none.
C2_PreviousDayMean ==
    \A t \in Threads :
        pc[t] = "done" =>
            \A r \in 1..data[t].rows :
                LET dates == data[t].col["date"]
                    prev  == dates[r][1] - 1
                IN  data[t].col["daily_mean"][r] =
                        IF RowsOfDate(dates, prev) = {} THEN Null
                        ELSE Some(MeanOfDate(data[t].col["y"], dates, prev))

\* C3 as stated: at every stage of a call the frame has one row per row of
\* the table the call was given, in the table's order.
C3_RowsPreserved ==
    \A t \in Threads :
        Running(t) =>
            /\ data[t].rows = raw[t].rows
            /\ \A c \in Columns(data[t]) : Len(data[t].col[c]) = raw[t].rows
            /\ \A c \in Columns(raw[t]) \cap {"start_time"} :
                  data[t].col[c] = raw[t].col[c]

\* C4 as stated: in the output of a call on a table of N rows, y_prev is null
\* in row 1 and the output's y of the row before in every other row, and
\* y_yesterday is null in the first 288 rows and the output's y of 288 rows
\* before in every other row.
C4_Lags ==
    \A t \in Threads :
        pc[t] = "done" =>
            /\ data[t].rows = raw[t].rows
            /\ \A i \in 1..raw[t].rows :
                  /\ data[t].col["y_prev"][i] =
                        IF i = 1 THEN Null ELSE Some(data[t].col["y"][i - 1])
                  /\ data[t].col["y_yesterday"][i] =
                        IF i <= ShiftDay THEN Null
                        ELSE Some(data[t].col["y"][i - ShiftDay])

\* C6 as stated: y_original of the output is, row by row, the y column of the
\* table the call was given.
C6_YOriginal ==
    \A t \in Threads :
        pc[t] = "done" => data[t].col["y_original"] = raw[t].col["y"]

\* C7 as stated: with calls of two threads interleaved, the scaler is fit at
\* most once and every call transforms with the values of that one fit.
C7_NoRace ==
    /\ Len(fit_log) <= 1
    /\ \A t \in Threads : used[t] # Null => used[t] = Some(fit_log[1])

\* C10 as stated: a call that raised leaves the scaler and its flag as they
\* were when the call began.
C10_FailedCallKeepsScaler ==
    \A t \in Threads :
        pc[t] = "failed" =>
            /\ scaler = pre[t].scaler
            /\ scaler_is_trained = pre[t].trained

====
